---- MODULE Spec2Model ----
(***************************************************************************)
(* JSE Market Watch (src/app.py): the scraper (JSEScraper), the analyzer   *)
(* (MarketAnalyzer) and the Streamlit rerun loop (StreamlitUI.run).        *)
(*                                                                         *)
(* Numbers are fixed-point hundredths (5.20 is 520).  A cell is a record   *)
(* of one shape, so that cells of different kinds can be compared.         *)
(***************************************************************************)
EXTENDS Integers, Sequences, FiniteSets, TLC

VARIABLES
  df,        \* SpecRank: the caller-held DataFrame passed to get_top_movers
  out,       \* SpecRank: what the last get_top_movers call produced
  tset,      \* SpecCombine: the tables dict passed to combine_tables
  combined,  \* SpecCombine: what the last combine_tables call produced
  session,   \* Spec: st.session_state (last_refresh, tables, top_n)
  ui,        \* Spec: what the last script run rendered
  clicks,    \* Spec: number of "Refresh Data" clicks so far
  gets,      \* Spec: number of requests.get calls issued so far
  page,      \* Spec: the response the last requests.get met
  fetched,   \* Spec: history, the value the last fetch_tables call returned
  lastGood   \* Spec: history, the value of the last fetch_tables call that returned tables

vars == <<df, out, tset, combined, session, ui, clicks, gets, page, fetched, lastGood>>

(***************************************************************************)
(* Bounds of the model.                                                    *)
(***************************************************************************)
MaxRows == 3
MaxCombineRows == 2
MaxClicks == 3
MaxN == 4

(***************************************************************************)
(* Cells.                                                                  *)
(***************************************************************************)
Text(s) == [kind |-> "text", text |-> s, v |-> 0]
Num(x) == [kind |-> "num", text |-> <<>>, v |-> x]
NaN == [kind |-> "nan", text |-> <<>>, v |-> 0]

IsNaN(c) == c.kind # "num"

SYMBOL_COL == "Symbol"
PCT_COL == "Week Change (%)"

(***************************************************************************)
(* pd.to_numeric(str(x).replace('%', ''), errors='coerce') on one cell.    *)
(* The grammar modelled is [sign] digits [. digits]; anything else is      *)
(* coerced to NaN.                                                         *)
(***************************************************************************)
Digits == <<"0", "1", "2", "3", "4", "5", "6", "7", "8", "9">>

IsDigit(c) == \E i \in 1..Len(Digits) : Digits[i] = c

DigitVal(c) == (CHOOSE i \in 1..Len(Digits) : Digits[i] = c) - 1

AllDigits(s) == \A i \in 1..Len(s) : IsDigit(s[i])

RECURSIVE DigitsVal(_)
DigitsVal(s) ==
  IF s = <<>> THEN 0
  ELSE 10 * DigitsVal(SubSeq(s, 1, Len(s) - 1)) + DigitVal(s[Len(s)])

StrReplacePct(s) == SelectSeq(s, LAMBDA c : c # "%")

ToNumeric(s) ==
  LET signed == Len(s) > 0 /\ s[1] \in {"+", "-"}
      neg == signed /\ s[1] = "-"
      body == IF signed THEN Tail(s) ELSE s
      dots == {i \in 1..Len(body) : body[i] = "."}
      d == IF dots = {} THEN Len(body) + 1 ELSE CHOOSE i \in dots : TRUE
      ip == SubSeq(body, 1, d - 1)
      fp == SubSeq(body, d + 1, Len(body))
      ok == /\ Cardinality(dots) <= 1
            /\ AllDigits(ip) /\ AllDigits(fp)
            /\ Len(ip) + Len(fp) > 0
            /\ Len(fp) <= 2
      frac == IF Len(fp) = 1 THEN 10 * DigitsVal(fp) ELSE DigitsVal(fp)
      mag == 100 * DigitsVal(ip) + frac
  IN IF ok THEN Num(IF neg THEN 0 - mag ELSE mag) ELSE NaN

\* str(x) of a cell that is already a float: only NaN is modelled ("nan").
CoerceObjectCell(c) ==
  IF c.kind = "text" THEN ToNumeric(StrReplacePct(c.text)) ELSE c

\* pd.to_numeric(series, errors='coerce') on a numeric column: unchanged.
CoerceNumericCell(c) == c

(***************************************************************************)
(* pandas Series.nlargest / nsmallest (keep='first'), which                *)
(* DataFrame.nlargest(n, column) applies to its one column.  vals is the   *)
(* coerced column; the result is the sequence of selected row positions.   *)
(***************************************************************************)
Min(a, b) == IF a <= b THEN a ELSE b

\* F applied to the value of x, with x evaluated once (a LET definition is
\* evaluated again at each of its uses).
Bind(x, F(_)) == CHOOSE y \in {F(v) : v \in {x}} : TRUE

Reverse(s) == [i \in 1..Len(s) |-> s[Len(s) + 1 - i]]

Take(s, k) == SubSeq(s, 1, Min(k, Len(s)))

RangeIndex(vals) == [i \in 1..Len(vals) |-> i]

\* dropped = self.obj.dropna()
Dropped(vals) == SelectSeq(RangeIndex(vals), LAMBDA i : ~IsNaN(vals[i]))

\* NaN rows left out of the selection altogether
NanIndexDropped(vals) == <<>>

\* nan_index = self.obj.drop(dropped.index)
NanIndex(vals) == SelectSeq(RangeIndex(vals), LAMBDA i : IsNaN(vals[i]))

\* arr = -arr for nlargest
Key(vals, largest, i) == IF largest THEN 0 - vals[i].v ELSE vals[i].v

\* An insertion that puts x before the elements of equal key
RECURSIVE InsertBeforeEqual(_, _, _, _)
InsertBeforeEqual(sorted, x, vals, largest) ==
  IF sorted = <<>> THEN <<x>>
  ELSE IF Key(vals, largest, sorted[Len(sorted)]) < Key(vals, largest, x)
       THEN Append(sorted, x)
       ELSE Append(InsertBeforeEqual(SubSeq(sorted, 1, Len(sorted) - 1), x, vals, largest),
                   sorted[Len(sorted)])

\* argsort(kind="mergesort"): stable, equal keys keep the order they have in ns
RECURSIVE InsertStable(_, _, _, _)
InsertStable(sorted, x, vals, largest) ==
  IF sorted = <<>> THEN <<x>>
  ELSE IF Key(vals, largest, sorted[Len(sorted)]) <= Key(vals, largest, x)
       THEN Append(sorted, x)
       ELSE Append(InsertStable(SubSeq(sorted, 1, Len(sorted) - 1), x, vals, largest),
                   sorted[Len(sorted)])

RECURSIVE Mergesort(_, _, _)
Mergesort(ns, vals, largest) ==
  IF ns = <<>> THEN <<>>
  ELSE Bind(Mergesort(SubSeq(ns, 1, Len(ns) - 1), vals, largest),
            LAMBDA sorted : InsertStable(sorted, ns[Len(ns)], vals, largest))

\* algos.kth_smallest(arr, k), k counted from 0
KthSmallest(ns, vals, largest, k) ==
  Key(vals, largest, Mergesort(ns, vals, largest)[k + 1])

\* The "fast method" of SelectNSeries.compute, taken when n < len(obj):
\*   kth_val = kth_smallest(arr, n - 1)      (nan when arr is empty)
\*   ns = nonzero(arr <= kth_val); inds = ns[arr[ns].argsort(kind="mergesort")][:n]
\*   concat([dropped.iloc[inds], nan_index]).iloc[:nbase]
SelectNFast(vals, n, largest) ==
  Bind(Dropped(vals), LAMBDA dropped :
    IF dropped = <<>> THEN Take(NanIndex(vals), n)
    ELSE Bind(KthSmallest(dropped, vals, largest, Min(n, Len(dropped)) - 1), LAMBDA kth_val :
           Take(Take(Mergesort(SelectSeq(dropped, LAMBDA i : Key(vals, largest, i) <= kth_val),
                               vals, largest),
                     Min(n, Len(dropped)))
                \o NanIndex(vals), n)))

\* argsort(kind="quicksort"), numpy's default: sorted by value, and the order
\* of equal values is not specified (the sort is not stable).
QuicksortOutcomes(ns, vals) ==
  LET S == {ns[i] : i \in 1..Len(ns)}
  IN {p \in [1..Len(ns) -> S] :
        /\ \A i, j \in 1..Len(ns) : i # j => p[i] # p[j]
        /\ \A i \in 1..(Len(ns) - 1) : vals[p[i]].v <= vals[p[i + 1]].v}

\* Series.sort_values(ascending) -> nargsort: NaN last; descending sorts the
\* reversed values ascending and reverses the outcome.
SortValuesOutcomes(vals, ascending) ==
  IF ascending
  THEN {q \o NanIndex(vals) : q \in QuicksortOutcomes(Dropped(vals), vals)}
  ELSE {Reverse(q) \o NanIndex(vals) : q \in QuicksortOutcomes(Reverse(Dropped(vals)), vals)}

\* The "slow method", taken when n >= len(obj): sort_values(...).head(n).
SelectNSlow(vals, n, largest) ==
  {Take(s, n) : s \in SortValuesOutcomes(vals, ~largest)}

SelectN(vals, n, largest) ==
  IF n <= 0 THEN {<<>>}
  ELSE IF n >= Len(vals) THEN SelectNSlow(vals, n, largest)
  ELSE {SelectNFast(vals, n, largest)}

NLargest(vals, n) == SelectN(vals, n, TRUE)

NSmallest(vals, n) == SelectN(vals, n, FALSE)

(***************************************************************************)
(* DataFrames.  A frame has its column names, the dtype of its change      *)
(* column ("object" for text, "float64" for numbers, "" when the column is *)
(* absent) and its rows, each a function from the column names to cells.   *)
(* A row's position is its index label (RangeIndex).                       *)
(***************************************************************************)
Frame(columns, dtype, rows) == [columns |-> columns, dtype |-> dtype, rows |-> rows]

EmptyFrame == Frame({}, "", <<>>)

Column(frame, col) == [i \in 1..Len(frame.rows) |-> frame.rows[i][col]]

\* df_copy[col] = values
SetColumn(frame, col, vals, dtype) ==
  [frame EXCEPT !.rows = [i \in 1..Len(frame.rows) |-> [frame.rows[i] EXCEPT ![col] = vals[i]]],
                !.dtype = dtype]

\* Lines 54-59: the change column converted to numbers.  Series.apply over an
\* empty object column gives an empty object column back.
CoerceColumn(frame, col) ==
  LET old == Column(frame, col)
  IN IF frame.dtype = "object"
     THEN SetColumn(frame, col, [i \in 1..Len(old) |-> CoerceObjectCell(old[i])],
                    IF Len(old) = 0 THEN "object" ELSE "float64")
     ELSE SetColumn(frame, col, [i \in 1..Len(old) |-> CoerceNumericCell(old[i])],
                    frame.dtype)

\* frame.take(indexer)[[symbol_col, pct_change_col]], with the index labels
SelectRows(frame, indexer, symbol_col, pct_change_col) ==
  [k \in 1..Len(indexer) |->
     [index |-> indexer[k],
      symbol |-> frame.rows[indexer[k]][symbol_col],
      change |-> frame.rows[indexer[k]][pct_change_col]]]

\* df.copy(): frames live in a store with the caller's frame in slot "arg";
\* the copy is a new frame in slot "copy" and the working reference names it.
DfCopyAlias(store) == [ref |-> "arg", store |-> store]

DfCopy(store) == [ref |-> "copy", store |-> [store EXCEPT !.copy = store.arg]]

\* The failure handed back as a value instead
ReturnEmpty(exc, store) ==
  [raised |-> FALSE, exc |-> "", gainers |-> <<>>, decliners |-> <<>>, arg |-> store.arg]

\* An exception leaving get_top_movers
Raise(exc, store) ==
  [raised |-> TRUE, exc |-> exc, gainers |-> <<>>, decliners |-> <<>>, arg |-> store.arg]

\* Lines 61-64 on the working copy st[ref]: nlargest and nsmallest, then
\* the two columns.
RankMovers(st, ref, symbol_col, pct_change_col, n) ==
  IF st[ref].dtype = "object"
  THEN {Raise("TypeError", st)}
  ELSE IF symbol_col \notin st[ref].columns
  THEN {Raise("KeyError", st)}
  ELSE {[raised |-> FALSE, exc |-> "",
         gainers |-> SelectRows(st[ref], g, symbol_col, pct_change_col),
         decliners |-> SelectRows(st[ref], s, symbol_col, pct_change_col),
         arg |-> st.arg] :
           g \in NLargest(Column(st[ref], pct_change_col), n),
           s \in NSmallest(Column(st[ref], pct_change_col), n)}

\* MarketAnalyzer.get_top_movers: the set of outcomes of one call (more than
\* one only where the order of tied rows is not specified).  "arg" is the
\* caller's frame as the call leaves it.
GetTopMovers(d, symbol_col, pct_change_col, n) ==
  UNION { IF pct_change_col \notin c.store[c.ref].columns
          THEN {Raise("KeyError", c.store)}
          ELSE UNION { RankMovers(st, c.ref, symbol_col, pct_change_col, n) :
                       st \in {[c.store EXCEPT
                                  ![c.ref] = CoerceColumn(c.store[c.ref], pct_change_col)]} } :
          c \in {DfCopy([arg |-> d, copy |-> EmptyFrame])} }

(***************************************************************************)
(* The inputs the analyzer is run on.                                      *)
(***************************************************************************)
TextCells ==
  { Text(<<"+", "5", ".", "2", "0", "%">>),
    Text(<<"-", "3", ".", "1", "0", "%">>),
    Text(<<"5", ".", "2">>),
    Text(<<"n", "/", "a">>) }

FloatCells == { Num(520), Num(0 - 310), NaN }

Symbols == <<"ABC", "XYZ", "QRS", "JMMB", "NCBFG", "GK", "SVL", "CAR">>

SymbolCell(i) == Text(<<Symbols[i]>>)

CellSeqs(cells, maxRows) == UNION { [1..k -> cells] : k \in 0..maxRows }

\* A quotes table with both columns; its symbols are Symbols[first + 1 ..]
QuoteFrame(chg, dtype, first) ==
  Frame({SYMBOL_COL, PCT_COL}, dtype,
        [i \in 1..Len(chg) |-> (SYMBOL_COL :> SymbolCell(first + i)) @@ (PCT_COL :> chg[i])])

\* The same table without its symbol column
NoSymbolFrame(chg, dtype) ==
  Frame({PCT_COL}, dtype, [i \in 1..Len(chg) |-> (PCT_COL :> chg[i])])

\* A table without its change column
NoChangeFrame(k) ==
  Frame({SYMBOL_COL}, "", [i \in 1..k |-> (SYMBOL_COL :> SymbolCell(i))])

RankInputs ==
  UNION { {QuoteFrame(chg, "object", 0), NoSymbolFrame(chg, "object")} :
          chg \in CellSeqs(TextCells, MaxRows) }
  \cup
  UNION { {QuoteFrame(chg, "float64", 0), NoSymbolFrame(chg, "float64")} :
          chg \in CellSeqs(FloatCells, MaxRows) }
  \cup
  { NoChangeFrame(k) : k \in 0..MaxRows }

(***************************************************************************)
(* MarketAnalyzer.combine_tables: pd.concat(frames, ignore_index=True).    *)
(***************************************************************************)
TABLE_1 == "Table 1"
TABLE_3 == "Table 3"
TABLE_5 == "Table 5"

DefaultTableKeys == <<TABLE_3, TABLE_5>>

SeqRange(s) == {s[i] : i \in 1..Len(s)}

\* a row of one frame laid out on the columns of the result: NaN where absent
Reindex(row, columns) ==
  [c \in columns |-> IF c \in DOMAIN row THEN row[c] ELSE NaN]

ConcatDtype(frames) ==
  IF \E i \in 1..Len(frames) : frames[i].dtype = "object" THEN "object"
  ELSE IF \E i \in 1..Len(frames) : frames[i].dtype = "float64" THEN "float64"
  ELSE ""

RECURSIVE ConcatRowsReversed(_, _)
ConcatRowsReversed(frames, columns) ==
  IF frames = <<>> THEN <<>>
  ELSE ConcatRowsReversed(Tail(frames), columns)
       \o [i \in 1..Len(frames[1].rows) |-> Reindex(frames[1].rows[i], columns)]

RECURSIVE ConcatRows(_, _)
ConcatRows(frames, columns) ==
  IF frames = <<>> THEN <<>>
  ELSE ConcatRows(SubSeq(frames, 1, Len(frames) - 1), columns)
       \o [i \in 1..Len(frames[Len(frames)].rows) |->
             Reindex(frames[Len(frames)].rows[i], columns)]

PdConcat(frames) ==
  LET columns == UNION {frames[i].columns : i \in 1..Len(frames)}
  IN Frame(columns, ConcatDtype(frames), ConcatRows(frames, columns))

CombineTables(tables, table_keys) ==
  IF \E k \in SeqRange(table_keys) : k \notin DOMAIN tables
  THEN [raised |-> TRUE, exc |-> "KeyError", frame |-> EmptyFrame]
  ELSE IF table_keys = <<>>
  THEN [raised |-> TRUE, exc |-> "ValueError", frame |-> EmptyFrame]
  ELSE [raised |-> FALSE, exc |-> "",
        frame |-> PdConcat([i \in 1..Len(table_keys) |-> tables[table_keys[i]]])]

(***************************************************************************)
(* JSEScraper.  A response has a status and the <table> elements of its    *)
(* body in document order; a table element either parses with read_html to *)
(* a frame or makes read_html raise.                                       *)
(***************************************************************************)
REQUIRED_TABLES == 5

NoTables == [some |-> FALSE, val |-> <<>>]

SomeTables(t) == [some |-> TRUE, val |-> t]

UnnamedColumns == {"Unnamed: 0", "Unnamed: 1", "Unnamed: 2"}

\* df.loc[:, ~df.columns.str.contains('^Unnamed', na=False)]
CleanTable(frame) ==
  LET keep == frame.columns \ UnnamedColumns
  IN [frame EXCEPT !.columns = keep,
                   !.rows = [i \in 1..Len(frame.rows) |-> [c \in keep |-> frame.rows[i][c]]]]

NoClean(frame) == frame

\* The dict display of lines 30-34, in evaluation order: key, position of
\* the table element (from 1), whether _clean_table is applied.
TableEntries ==
  << [key |-> TABLE_1, pos |-> 1, clean |-> FALSE],
     [key |-> TABLE_3, pos |-> 3, clean |-> TRUE],
     [key |-> TABLE_5, pos |-> 5, clean |-> TRUE] >>

\* Lines 36-38: the except clause; what was built so far is dropped.
OnFetchExceptionPartial(partial) ==
  [tables |-> SomeTables(partial), error |-> "exception", requests |-> 1]

OnFetchException(partial) ==
  [tables |-> NoTables, error |-> "exception", requests |-> 1]

RECURSIVE BuildTables(_, _, _)
BuildTables(elements, k, partial) ==
  IF k > Len(TableEntries)
  THEN [tables |-> SomeTables(partial), error |-> "", requests |-> 1]
  ELSE LET e == TableEntries[k]
       IN IF e.pos > Len(elements) \/ ~elements[e.pos].parsable
          THEN OnFetchException(partial)
          ELSE BuildTables(elements, k + 1,
                 partial @@ (e.key :> IF e.clean THEN CleanTable(elements[e.pos].frame)
                                      ELSE NoClean(elements[e.pos].frame)))

FetchTablesRetry(pg) ==
  LET once == IF pg.status # "ok" THEN OnFetchException(<<>>)
              ELSE IF Len(pg.tables) < REQUIRED_TABLES
              THEN [tables |-> NoTables, error |-> "structural", requests |-> 1]
              ELSE BuildTables(pg.tables, 1, <<>>)
  IN IF once.tables.some THEN once ELSE [once EXCEPT !.requests = 2]

\* JSEScraper.fetch_tables: one requests.get, then the tables or None
FetchTables(pg) ==
  IF pg.status # "ok"
  THEN OnFetchException(<<>>)
  ELSE IF Len(pg.tables) < REQUIRED_TABLES
  THEN [tables |-> NoTables, error |-> "structural", requests |-> 1]
  ELSE BuildTables(pg.tables, 1, <<>>)

(***************************************************************************)
(* StreamlitUI: session state and one script run.                          *)
(***************************************************************************)
TOP_N_DEFAULT == 5
TOP_N_MIN == 1
TOP_N_MAX == 20

\* initialize_session_state on an empty session; last_refresh 0 is None
InitialSession == [last_refresh |-> 0, tables |-> NoTables, top_n |-> TOP_N_DEFAULT]

\* Whether a get_top_movers call raises, and what (the same in every outcome)
GetTopMoversExc(d, n) ==
  (CHOOSE r \in GetTopMovers(d, SYMBOL_COL, PCT_COL, n) : TRUE).exc

\* display_market_summary: the three ranking panels in order inside one
\* try/except; "panels" counts those rendered before an exception, "error"
\* is the exception st.error reports ("" when none).
DisplayMarketSummary(tables, top_n) ==
  Bind(CombineTables(tables, DefaultTableKeys), LAMBDA c :
    Bind(IF c.raised THEN c.exc ELSE GetTopMoversExc(c.frame, top_n), LAMBDA e0 :
      IF e0 # "" THEN [panels |-> 0, error |-> e0]
      ELSE Bind(GetTopMoversExc(tables[TABLE_3], top_n), LAMBDA e3 :
             IF e3 # "" THEN [panels |-> 1, error |-> e3]
             ELSE Bind(GetTopMoversExc(tables[TABLE_5], top_n), LAMBDA e5 :
                    IF e5 # "" THEN [panels |-> 2, error |-> e5]
                    ELSE [panels |-> 3, error |-> ""]))))

NothingRendered == [view |-> "none", fetch_error |-> "", panels |-> 0, summary_error |-> ""]

\* display_market_summary followed by display_market_data
RenderData(tables, top_n) ==
  Bind(DisplayMarketSummary(tables, top_n), LAMBDA m :
    [view |-> "data", fetch_error |-> "", panels |-> m.panels, summary_error |-> m.error])

\* Line 243: st.session_state['tables'] = tables
StoreTablesIfFetched(old, new) == IF new.some THEN new ELSE old

StoreTables(old, new) == new

\* StreamlitUI.run after display_header, for a run in which the button was
\* clicked and requests.get met response pg.
RunRefreshed(s, pg, stamp) ==
  Bind(FetchTables(pg), LAMBDA r :
    [session |-> [s EXCEPT !.last_refresh = stamp, !.tables = StoreTables(s.tables, r.tables)],
     fetched |-> r,
     ui |-> IF r.tables.some THEN RenderData(r.tables.val, s.top_n)
            ELSE [NothingRendered EXCEPT !.view = "fetch_failed", !.fetch_error = r.error]])

\* StreamlitUI.run for a run in which the button was not clicked
RunNotRefreshed(s) ==
  IF s.tables.some THEN RenderData(s.tables.val, s.top_n)
  ELSE [NothingRendered EXCEPT !.view = "info"]

(***************************************************************************)
(* The responses the site may give.                                        *)
(***************************************************************************)
Element(frame) == [parsable |-> TRUE, frame |-> frame]

Broken == [parsable |-> FALSE, frame |-> EmptyFrame]

IndicesFrame ==
  Frame({"Index", "Value"}, "",
        <<("Index" :> Text(<<"JSE Index">>)) @@ ("Value" :> Num(33000000))>>)

\* read_html of a quotes table whose first header cell is empty
RawQuotes(chg, first) ==
  LET q == QuoteFrame(chg, "object", first)
  IN [q EXCEPT !.columns = @ \cup {"Unnamed: 0"},
               !.rows = [i \in 1..Len(q.rows) |-> q.rows[i] @@ ("Unnamed: 0" :> NaN)]]

Ordinary ==
  RawQuotes(<<Text(<<"+", "5", ".", "2", "0", "%">>), Text(<<"n", "/", "a">>)>>, 0)

Preference == RawQuotes(<<Text(<<"-", "3", ".", "1", "0", "%">>)>>, 2)

Legend == Element(EmptyFrame)

PageOf(status, elements) == [status |-> status, tables |-> elements]

Pages ==
  { PageOf("ok", <<Element(IndicesFrame), Legend, Element(Ordinary), Legend, Element(Preference)>>),
    PageOf("ok", <<Element(IndicesFrame), Legend, Element(Preference), Legend, Element(Ordinary),
                   Legend>>),
    PageOf("ok", <<Element(IndicesFrame), Legend, Element(Ordinary), Legend,
                   Element(NoChangeFrame(1))>>),
    PageOf("ok", <<Element(IndicesFrame), Legend, Element(Ordinary), Legend, Broken>>),
    PageOf("ok", <<Element(IndicesFrame), Legend, Element(Ordinary), Legend>>),
    PageOf("ok", <<>>),
    PageOf("http_error", <<>>),
    PageOf("connection_error", <<>>) }

NoPage == PageOf("none", <<>>)

NotFetched == [tables |-> NoTables, error |-> "", requests |-> 0]

(***************************************************************************)
(* SpecRank: get_top_movers called, again and again, on a caller-held      *)
(* frame.                                                                  *)
(***************************************************************************)
NoCall ==
  [called |-> FALSE, n |-> 0, raised |-> FALSE, exc |-> "", gainers |-> <<>>, decliners |-> <<>>]

NoCombine == [called |-> FALSE, keys |-> <<>>, raised |-> FALSE, exc |-> "", frame |-> EmptyFrame]

RankIdle == df = EmptyFrame /\ out = NoCall

CombineIdle == tset = <<>> /\ combined = NoCombine

AppIdle ==
  /\ session = InitialSession
  /\ ui = NothingRendered
  /\ clicks = 0
  /\ gets = 0
  /\ page = NoPage
  /\ fetched = NotFetched
  /\ lastGood = NoTables

rankVars == <<df, out>>
combineVars == <<tset, combined>>
appVars == <<session, ui, clicks, gets, page, fetched, lastGood>>

InitRank == df \in RankInputs /\ out = NoCall /\ CombineIdle /\ AppIdle

\* One call on the frame the caller holds; df becomes the frame as the call
\* leaves it.
CallGetTopMovers ==
  \E n \in TOP_N_MIN..Min(MaxN, TOP_N_MAX) :
    /\ ~out.called
    /\ \E r \in GetTopMovers(df, SYMBOL_COL, PCT_COL, n) :
         /\ out' = [called |-> TRUE, n |-> n, raised |-> r.raised, exc |-> r.exc,
                    gainers |-> r.gainers, decliners |-> r.decliners]
         /\ df' = r.arg
         /\ UNCHANGED <<combineVars, appVars>>

NextRank == CallGetTopMovers

SpecRank == InitRank /\ [][NextRank]_vars

(***************************************************************************)
(* SpecCombine: combine_tables called on a dict of two quotes tables.      *)
(***************************************************************************)
CombineFrames(first) ==
  UNION { {QuoteFrame(chg, "float64", first), NoSymbolFrame(chg, "float64")} :
          chg \in CellSeqs(FloatCells, MaxCombineRows) }

KeyLists ==
  { <<TABLE_3, TABLE_5>>, <<TABLE_5, TABLE_3>>, <<TABLE_3, TABLE_3>>, <<TABLE_5>>,
    <<TABLE_3, TABLE_1>>, <<>> }

InitCombine ==
  /\ tset \in { (TABLE_3 :> a) @@ (TABLE_5 :> b) :
                a \in CombineFrames(0), b \in CombineFrames(MaxCombineRows + 1) }
  /\ combined = NoCombine
  /\ RankIdle /\ AppIdle

CallCombineTables ==
  \E keys \in KeyLists :
    \E r \in {CombineTables(tset, keys)} :
       /\ combined' = [called |-> TRUE, keys |-> keys, raised |-> r.raised, exc |-> r.exc,
                       frame |-> r.frame]
       /\ UNCHANGED <<tset, rankVars, appVars>>

NextCombine == CallCombineTables

SpecCombine == InitCombine /\ [][NextCombine]_vars

(***************************************************************************)
(* Spec: the application.  Every user interaction reruns the script; the   *)
(* button is True only in the run its click triggers.                      *)
(***************************************************************************)
Init == AppIdle /\ RankIdle /\ CombineIdle

\* A click on "Refresh Data"
RefreshData ==
  /\ clicks < MaxClicks
  /\ \E pg \in Pages :
       \E r \in {RunRefreshed(session, pg, clicks + 1)} :
          /\ session' = r.session
          /\ ui' = r.ui
          /\ fetched' = r.fetched
          /\ gets' = gets + r.fetched.requests
          /\ page' = pg
          /\ lastGood' = IF r.fetched.tables.some THEN r.fetched.tables ELSE lastGood
  /\ clicks' = clicks + 1
  /\ UNCHANGED <<rankVars, combineVars>>

\* A rerun that no widget of the page triggers (first load, download button)
Rerun ==
  /\ \E u \in {RunNotRefreshed(session)} : ui' = u
  /\ UNCHANGED <<session, clicks, gets, page, fetched, lastGood, rankVars, combineVars>>

\* on_top_n_change, then the rerun the widget triggers
ChangeTopN ==
  \E v \in TOP_N_MIN..TOP_N_MAX :
    /\ v # session.top_n
    /\ \E s1 \in {[session EXCEPT !.top_n = v]} :
         /\ session' = s1
         /\ ui' = RunNotRefreshed(s1)
    /\ UNCHANGED <<clicks, gets, page, fetched, lastGood, rankVars, combineVars>>

Next == RefreshData \/ Rerun \/ ChangeTopN

Spec == Init /\ [][Next]_vars

(***************************************************************************)
(* Properties of get_top_movers, checked under SpecRank.                   *)
(***************************************************************************)
HasBoth(d) == SYMBOL_COL \in d.columns /\ PCT_COL \in d.columns

\* The value the change cell of row i of d has once converted
Coerced(d, i) ==
  IF d.dtype = "object" THEN CoerceObjectCell(d.rows[i][PCT_COL])
  ELSE CoerceNumericCell(d.rows[i][PCT_COL])

\* The rows of d whose change cell is text that does not parse
UnparsableRows(d) ==
  {i \in 1..Len(d.rows) : d.dtype = "object" /\ IsNaN(Coerced(d, i))}

Selected(rows) == {rows[k].index : k \in 1..Len(rows)}

\* IEEE comparison: false as soon as one side is NaN
Ge(a, b) == ~IsNaN(a) /\ ~IsNaN(b) /\ a.v >= b.v

Ranked == out.called /\ ~out.raised

\* C2: no row whose change text does not parse appears among the gainers or
\* the decliners, and the call does not fail, whatever n is.
C2_UnparsableExcluded ==
  (out.called /\ HasBoth(df) /\ UnparsableRows(df) # {}) =>
    /\ ~out.raised
    /\ Selected(out.gainers) \cap UnparsableRows(df) = {}
    /\ Selected(out.decliners) \cap UnparsableRows(df) = {}

\* C3: on a dataset of at least n rows the call returns exactly n gainers and
\* exactly n decliners, unparsable cells or not.
C3_ExactlyN ==
  (out.called /\ HasBoth(df) /\ Len(df.rows) >= out.n) =>
    /\ ~out.raised
    /\ Len(out.gainers) = out.n
    /\ Len(out.decliners) = out.n

C3_Witness ==
  /\ Ranked /\ out.n = 2 /\ Len(df.rows) = 3
  /\ Cardinality(UnparsableRows(df)) = 2
  /\ Len(out.gainers) = 2 /\ Len(out.decliners) = 2

\* C4 as claimed: a missing column is reported by a MissingColumn error that
\* is returned as a value, nothing being raised out of the analyzer.
C4_ReturnedAsValue ==
  (out.called /\ ~HasBoth(df)) => (~out.raised /\ out.exc = "MissingColumn")

\* C4 as amended: a missing column makes get_top_movers raise an exception
\* (pandas' KeyError as soon as the dataset has a row) and produce no ranking.
C4_Raises ==
  (out.called /\ ~HasBoth(df)) =>
    /\ out.raised
    /\ (Len(df.rows) > 0 => out.exc = "KeyError")
    /\ out.gainers = <<>> /\ out.decliners = <<>>

C4_Witness ==
  /\ out.called /\ SYMBOL_COL \notin df.columns /\ PCT_COL \in df.columns
  /\ Len(df.rows) = 2
  /\ out.raised /\ out.exc = "KeyError"

\* C5: the change values of the gainers never increase along the sequence
\* and those of the decliners never decrease.
C5_Monotone ==
  Ranked =>
    /\ \A k \in 1..(Len(out.gainers) - 1) :
         Ge(out.gainers[k].change, out.gainers[k + 1].change)
    /\ \A k \in 1..(Len(out.decliners) - 1) :
         Ge(out.decliners[k + 1].change, out.decliners[k].change)

\* C7: a call of get_top_movers, successful or failing, leaves the frame it
\* was given exactly as it was.
C7_InputNotMutated == [][df' = df]_vars

C7_Witness ==
  /\ Ranked /\ df.dtype = "object" /\ Len(df.rows) = 2
  /\ UnparsableRows(df) # {}

\* Rows of equal change value appear in the order they have in the dataset
TiesInRowOrder(rows) ==
  \A a, b \in 1..Len(rows) :
    (a < b /\ Ge(rows[a].change, rows[b].change) /\ Ge(rows[b].change, rows[a].change))
      => rows[a].index < rows[b].index

\* Of two rows of equal change value the later one is selected only if the
\* earlier one is
TiesCutInRowOrder(rows) ==
  \A i, j \in 1..Len(df.rows) :
    (i < j /\ Ge(Coerced(df, i), Coerced(df, j)) /\ Ge(Coerced(df, j), Coerced(df, i))
       /\ j \in Selected(rows))
      => i \in Selected(rows)

TiesByRowOrder ==
  /\ TiesInRowOrder(out.gainers) /\ TiesInRowOrder(out.decliners)
  /\ TiesCutInRowOrder(out.gainers) /\ TiesCutInRowOrder(out.decliners)

SameRow(r, k) == \A c \in DOMAIN r : combined.frame.rows[k][c] = r[c]

\* C6: for keys [A, B] the result holds len(A) + len(B) rows, the rows of A
\* first and then those of B, each source in its own order.
C6_ConcatInKeyOrder ==
  (combined.called /\ Len(combined.keys) = 2 /\ SeqRange(combined.keys) \subseteq DOMAIN tset) =>
    LET A == tset[combined.keys[1]]
        B == tset[combined.keys[2]]
    IN /\ ~combined.raised
       /\ Len(combined.frame.rows) = Len(A.rows) + Len(B.rows)
       /\ \A i \in 1..Len(A.rows) : SameRow(A.rows[i], i)
       /\ \A j \in 1..Len(B.rows) : SameRow(B.rows[j], Len(A.rows) + j)

C6_Witness ==
  /\ combined.called /\ ~combined.raised
  /\ combined.keys = <<TABLE_5, TABLE_3>>
  /\ Len(tset[TABLE_5].rows) = 2 /\ Len(tset[TABLE_3].rows) = 1
  /\ Len(combined.frame.rows) = 3
  /\ HasBoth(tset[TABLE_3]) /\ HasBoth(tset[TABLE_5])

(***************************************************************************)
(* Properties of the application, checked under Spec.                      *)
(***************************************************************************)
TableKeys == {TABLE_1, TABLE_3, TABLE_5}

\* C1: a fetch returns either a TableSet with exactly the three keys or none
\* at all, and a page of fewer than 5 tables gives the structural failure.
C1_AllOrNothing ==
  clicks > 0 =>
    /\ fetched.tables.some => DOMAIN fetched.tables.val = TableKeys
    /\ session.tables.some => DOMAIN session.tables.val = TableKeys
    /\ (page.status = "ok" /\ Len(page.tables) < REQUIRED_TABLES) =>
         (~fetched.tables.some /\ fetched.error = "structural")

C1_Witness ==
  /\ page.status = "ok" /\ Len(page.tables) = 4
  /\ ~fetched.tables.some /\ fetched.error = "structural"
  /\ ui.view = "fetch_failed"

\* C8 as claimed: the held TableSet is the result of the most recent
\* successful fetch; a failed refresh leaves it in place.
C8_KeepsLastGood == session.tables = lastGood

\* C8 as amended: the held TableSet is the result of the most recent fetch,
\* none when that fetch failed; without held tables no data is displayed.
C8_HoldsLastFetch ==
  /\ session.tables = fetched.tables
  /\ ui.view = "data" => session.tables.some

C8_Witness ==
  /\ lastGood.some /\ ~session.tables.some
  /\ ui.view = "info"

\* C9: GETs never outnumber refresh clicks, and a step issues a GET only if
\* it is a refresh click, which issues exactly one.
C9_GetOnlyOnClick ==
  /\ [](gets <= clicks)
  /\ [][/\ clicks' = clicks => gets' = gets
        /\ clicks' # clicks => (clicks' = clicks + 1 /\ gets' = gets + 1)]_vars

C9_Witness ==
  /\ clicks = 2 /\ gets = 2
  /\ ~fetched.tables.some /\ lastGood.some
  /\ session.top_n # TOP_N_DEFAULT
  /\ ui.view = "info"

====
